---- MODULE Spec2Model ----
(***************************************************************************)
(* Model of ace_button::LadderButtonConfig (LadderButtonConfig.h): the     *)
(* table of analog buttons, the constructor, and readButton(), which reads *)
(* the analog channel once and scans the table for the first entry whose   *)
(* tolerance window holds the sample.                                      *)
(*                                                                         *)
(* The window comparison of line 87 mixes int, uint16_t and uint8_t, so    *)
(* its value depends on the width of int of the build: with a 32-bit int   *)
(* everything is promoted to int and the arithmetic is exact; with a       *)
(* 16-bit int (AVR) uint16_t is unsigned int and both the bounds and the   *)
(* sample are taken modulo 2^16.  The width is a choice made in Init.      *)
(***************************************************************************)
EXTENDS Integers, Sequences, FiniteSets, TLC

\* ---------------------------------------------------------------- bounds
MaxTableLen == 2
MaxSample == 4
MaxPin == 3
MaxCalls == 2

\* ---------------------------------------------------- program constants
LOW == 0
HIGH == 1
UINT8_MAX == 255
Uint8Mod == 256
Uint16Mod == 65536

Levels == {LOW, HIGH}
IntWidths == {16, 32}
AnalogPins == {0, 1}
Samples == 0..MaxSample
Pins == (0..MaxPin) \cup {UINT8_MAX}

\* AnalogButtons_t: { uint16_t threshold; uint8_t tolerance; uint8_t id; }
Thresholds == {0, 2}
Tolerances == {0, 1}
\* readButton never reads id, so one identifier suffices: it differs from the
\* position of a first entry and equals the position of a second one.
Ids == {2}
AnalogButtons_t == [threshold : Thresholds, tolerance : Tolerances, id : Ids]

\* A table of the largest size a uint8_t abSize can state; only its last
\* entry has a window within reach of the samples.
FullTable ==
  [k \in 1..UINT8_MAX |->
     [threshold |-> IF k = UINT8_MAX THEN 2 ELSE 100 + 4 * k,
      tolerance |-> 1,
      id |-> k]]

RECURSIVE SeqsUpTo(_, _)
SeqsUpTo(S, n) ==
  IF n = 0 THEN {<<>>}
  ELSE LET shorter == SeqsUpTo(S, n - 1)
       IN shorter \cup {Append(t, e) : t \in {u \in shorter : Len(u) = n - 1}, e \in S}

Tables == SeqsUpTo(AnalogButtons_t, MaxTableLen) \cup {FullTable}

NoCall == -1

VARIABLES
  mPinA,                 \* const uint8_t mPinA
  mab,                   \* const AnalogButtons_t* mab (the table it points to)
  mabSize,               \* const uint8_t mabSize
  mPressedState,         \* const uint8_t mPressedState
  defaultReleasedState,  \* the constructor's argument
  intBits,               \* width of int of the build
  adc,                   \* value now present on the analog channel
  pin,                   \* argument of the last readButton call
  sa,                    \* int sa of the last readButton call
  result,                \* value returned by the last readButton call
  readPin,               \* channel handed to analogRead by the last call
  nCalls,                \* number of readButton calls made
  nReads,                \* number of analogRead calls made
  prevResult,            \* value returned by the call before the last
  repeat                 \* last call had the sample and pin of the one before

vars == <<mPinA, mab, mabSize, mPressedState, defaultReleasedState, intBits,
          adc, pin, sa, result, readPin, nCalls, nReads, prevResult, repeat>>

fields == <<mPinA, mab, mabSize, mPressedState>>

\* x ^ 0x1 on an unsigned byte
Xor1(x) == IF x % 2 = 0 THEN x + 1 ELSE x - 1

\* mPressedState(defaultReleasedState ^ 0x1)
PressedStateOf(released) == Xor1(released)

\* Conversion of a value to the type the comparison of line 87 is made in.
Conv(x, bits) == IF bits = 16 THEN x % Uint16Mod ELSE x

\* mab[i].threshold - mab[i].tolerance
LowerBound(e, bits) == Conv(e.threshold - e.tolerance, bits)

\* mab[i].threshold + mab[i].tolerance
UpperBound(e, bits) == Conv(e.threshold + e.tolerance, bits)

OutOfWindowNoUpper(s, e, bits) == Conv(s, bits) < LowerBound(e, bits)

\* (sa < threshold - tolerance) || (sa > threshold + tolerance)
OutOfWindow(s, e, bits) ==
  \/ Conv(s, bits) < LowerBound(e, bits)
  \/ Conv(s, bits) > UpperBound(e, bits)

\* while (i < mabSize && (...)) i++;   with uint8_t i starting at 0:
\* the loop leaves i at the first index where its condition is false, which
\* is at most mabSize <= 255, so the uint8_t increment never wraps.
Scan(s, tab, size, bits) ==
  LET stops == {i \in 0..size : ~(i < size /\ OutOfWindow(s, tab[i + 1], bits))}
  IN CHOOSE i \in stops : \A j \in stops : i <= j

VirtualPinNoOffset(i) == i % Uint8Mod

\* uint8_t virtualPin = i + 1;
VirtualPin(i) == (i + 1) % Uint8Mod

\* A readButton that answers "no button" with the literal HIGH.
ReadButtonValueFixedHigh(p, s, tab, size, pressed, bits) ==
  LET i == Scan(s, tab, size, bits)
  IN IF i = size THEN HIGH
     ELSE IF VirtualPin(i) = p THEN pressed ELSE Xor1(pressed)

\* The value readButton(p) returns when analogRead yields s.
ReadButtonValue(p, s, tab, size, pressed, bits) ==
  LET i == Scan(s, tab, size, bits)
  IN IF i = size THEN Xor1(pressed)
     ELSE IF VirtualPin(i) = p THEN pressed ELSE Xor1(pressed)

\* analogRead(mPinA): the value now on the channel
analogRead(channel) == adc

\* LadderButtonConfig(pinA, ab, abSize, defaultReleasedState)
LadderButtonConfig(pinA, ab, abSize, released) ==
  /\ mPinA = pinA
  /\ mab = ab
  /\ mabSize = abSize
  /\ mPressedState = PressedStateOf(released)
  /\ defaultReleasedState = released

Init ==
  /\ \E pinA \in AnalogPins, ab \in Tables, released \in Levels :
       LadderButtonConfig(pinA, ab, Len(ab), released)
  /\ intBits \in IntWidths
  /\ adc \in Samples
  /\ pin = NoCall
  /\ sa = NoCall
  /\ result = NoCall
  /\ readPin = NoCall
  /\ prevResult = NoCall
  /\ nCalls = 0
  /\ nReads = 0
  /\ repeat = FALSE

\* A readButton that keeps the sample of the first call.
readButtonCached(p) ==
  /\ nCalls < MaxCalls
  /\ LET s == IF nCalls = 0 THEN analogRead(mPinA) ELSE sa
     IN /\ sa' = s
        /\ result' = ReadButtonValue(p, s, mab, mabSize, mPressedState, intBits)
        /\ repeat' = (nCalls > 0 /\ s = sa /\ p = pin)
  /\ readPin' = mPinA
  /\ nReads' = IF nCalls = 0 THEN nReads + 1 ELSE nReads
  /\ pin' = p
  /\ prevResult' = result
  /\ nCalls' = nCalls + 1
  /\ UNCHANGED <<fields, defaultReleasedState, intBits, adc>>

\* A readButton that writes the level it returns back into mPressedState.
readButtonStateful(p) ==
  /\ nCalls < MaxCalls
  /\ LET s == analogRead(mPinA)
         r == ReadButtonValue(p, s, mab, mabSize, mPressedState, intBits)
     IN /\ sa' = s
        /\ result' = r
        /\ mPressedState' = r
        /\ repeat' = (nCalls > 0 /\ s = sa /\ p = pin)
  /\ readPin' = mPinA
  /\ nReads' = nReads + 1
  /\ pin' = p
  /\ prevResult' = result
  /\ nCalls' = nCalls + 1
  /\ UNCHANGED <<mPinA, mab, mabSize, defaultReleasedState, intBits, adc>>

\* int readButton(uint8_t pin)
readButton(p) ==
  /\ nCalls < MaxCalls
  /\ LET s == analogRead(mPinA)
     IN /\ sa' = s
        /\ result' = ReadButtonValue(p, s, mab, mabSize, mPressedState, intBits)
        /\ repeat' = (nCalls > 0 /\ s = sa /\ p = pin)
  /\ readPin' = mPinA
  /\ nReads' = nReads + 1
  /\ pin' = p
  /\ prevResult' = result
  /\ nCalls' = nCalls + 1
  /\ UNCHANGED <<fields, defaultReleasedState, intBits, adc>>

\* The voltage on the ladder changes (a button is pressed or released).
AnalogChange ==
  /\ \E v \in Samples \ {adc} : adc' = v
  /\ UNCHANGED <<fields, defaultReleasedState, intBits, pin, sa, result,
                 readPin, nCalls, nReads, prevResult, repeat>>

Next ==
  \/ \E p \in Pins : readButton(p)
  \/ AnalogChange

Spec == Init /\ [][Next]_vars

\* ------------------------------------------------------------ properties
Called == nCalls > 0

\* the released level, as readButton states it: mPressedState ^ 0x1
ReleasedState == Xor1(mPressedState)

\* The tolerance window of an entry, over the integers:
\* threshold - tolerance <= s <= threshold + tolerance
InWindow(s, e) ==
  /\ e.threshold - e.tolerance <= s
  /\ s <= e.threshold + e.tolerance

Indices == 0..(mabSize - 1)

\* 0-based indices of the entries whose window holds the last sample
Matching == {k \in Indices : InWindow(sa, mab[k + 1])}

NoEarlier(k) == \A j \in 0..(k - 1) : ~InWindow(sa, mab[j + 1])

LowestMatching == CHOOSE k \in Matching : \A j \in Matching : k <= j

\* C1: for every table, sample and 0-based index k, if the sample is in the
\* window [threshold-tolerance, threshold+tolerance] of the entry at index k,
\* readButton(k+1) returns the pressed level.
C1_EncoderLookup ==
  Called =>
    \A k \in Indices :
      (InWindow(sa, mab[k + 1]) /\ pin = k + 1) => result = mPressedState

\* C2: direct lookup: if the sample is in the window of entry e (the first
\* such entry of the table) and the requested pin equals the id stored in e,
\* readButton returns the pressed level; for any other requested pin it
\* returns the released level.
C2_DirectLookup ==
  Called =>
    \A k \in Indices :
      (InWindow(sa, mab[k + 1]) /\ NoEarlier(k)) =>
        IF pin = mab[k + 1].id
        THEN result = mPressedState
        ELSE result = ReleasedState

\* C3: for every table, the empty one included, and every sample strictly
\* outside the window of every entry, readButton returns the released level
\* whatever pin is requested.
C3_OutsideEveryWindow ==
  (Called /\ Matching = {}) => result = ReleasedState

C3_Witness ==
  /\ Called
  /\ mabSize > 0
  /\ Matching = {}
  /\ pin \in 1..mabSize
  /\ \E k \in Indices : sa = mab[k + 1].threshold + mab[k + 1].tolerance + 1
  /\ result = ReleasedState

\* C4: the window is inclusive at both ends: a sample equal to
\* threshold-tolerance or to threshold+tolerance of entry e matches e, so that
\* when no earlier entry matches readButton of e's virtual pin returns the
\* pressed level, while a sample one below the lower bound or one above the
\* upper bound does not match e.
C4_InclusiveBounds ==
  Called =>
    \A k \in Indices :
      LET lo == mab[k + 1].threshold - mab[k + 1].tolerance
          hi == mab[k + 1].threshold + mab[k + 1].tolerance
      IN (NoEarlier(k) /\ pin = k + 1) =>
           /\ (sa = lo \/ sa = hi) => result = mPressedState
           /\ (sa = lo - 1 \/ sa = hi + 1) => result = ReleasedState

\* C5: the lower bound never wraps: for an entry whose tolerance is greater
\* than its threshold every sample from 0 up to threshold+tolerance matches
\* the entry, so that when no earlier entry matches readButton of its virtual
\* pin returns the pressed level.
C5_LowerBoundNoWrap ==
  Called =>
    \A k \in Indices :
      ( /\ mab[k + 1].tolerance > mab[k + 1].threshold
        /\ sa >= 0
        /\ sa <= mab[k + 1].threshold + mab[k + 1].tolerance
        /\ NoEarlier(k)
        /\ pin = k + 1 ) => result = mPressedState

\* C6: polarity inversion: the pressed level is the released level XOR 1,
\* every result is one of these two binary levels, and for the same table,
\* sample and pin a classifier constructed with the other released level
\* returns the opposite level.
C6_PolarityInversion ==
  /\ defaultReleasedState \in Levels
  /\ mPressedState = 1 - defaultReleasedState
  /\ Called =>
       /\ result \in {mPressedState, defaultReleasedState}
       /\ result = 1 - ReadButtonValue(pin, sa, mab, mabSize,
                         PressedStateOf(1 - defaultReleasedState), intBits)

C6_Witness ==
  /\ Called
  /\ defaultReleasedState = LOW
  /\ Matching # {}
  /\ pin = LowestMatching + 1
  /\ result = HIGH

\* C7: a virtual pin no table position can produce reads released: pin 0 and
\* every pin greater than the table size, for every table size up to 255 and
\* every sample; index+1 never wraps to 0.
C7_UnreachablePins ==
  (Called /\ (pin = 0 \/ pin > mabSize)) => result = ReleasedState

C7_Witness ==
  /\ Called
  /\ mabSize = UINT8_MAX
  /\ Matching = {UINT8_MAX - 1}
  /\ pin = 0
  /\ result = ReleasedState

\* C8: every readButton call makes exactly one analog read, of the configured
\* channel, and classifies the sample read during that call; nothing else
\* reads the channel.
C8_OneReadPerCall ==
  [][ /\ (nCalls' # nCalls) =>
           /\ nCalls' = nCalls + 1
           /\ nReads' = nReads + 1
           /\ readPin' = mPinA
           /\ sa' = adc
           /\ result' = ReadButtonValue(pin', adc, mab, mabSize,
                                        mPressedState, intBits)
      /\ (nCalls' = nCalls) => nReads' = nReads ]_vars

C8_Witness ==
  /\ nCalls >= 2
  /\ nReads = nCalls
  /\ ~repeat
  /\ result # prevResult

\* C9: queries are stateless and idempotent: no call changes the table, its
\* size, the pin handle or the pressed level; the result of a call is a
\* function of the current sample, the requested pin, the table and the
\* released level; and a call with the sample and pin of the call before it
\* returns the same result.
C9_Stateless ==
  /\ [][fields' = fields]_vars
  /\ [](Called => result = ReadButtonValue(pin, sa, mab, mabSize,
                             PressedStateOf(defaultReleasedState), intBits))
  /\ [](repeat => result = prevResult)

C9_Witness ==
  /\ nCalls >= 2
  /\ repeat
  /\ result = mPressedState
  /\ prevResult = mPressedState

\* C10: first match wins and selection is single: the match is the
\* lowest-index entry whose window holds the sample, so readButton(p) returns
\* the pressed level for p = (lowest matching index)+1 and for no other p; a
\* later entry whose window also holds the sample reads released.
C10_FirstMatchWins ==
  Called =>
    IF Matching = {}
    THEN result = ReleasedState
    ELSE (result = mPressedState) <=> (pin = LowestMatching + 1)

====
